---- MODULE Spec2Model ----
(***************************************************************************)
(* A model of the InventionID control loop:                                *)
(*   - InventionScorer (utils/scoring.py), a pure function of a Record;    *)
(*   - the phase agents (agents/extractor_agent.py, validator_agent.py,    *)
(*     refiner_agent.py) built on AutonomousAgent;                         *)
(*   - AutonomousOrchestrator.orchestrate and _finalize;                   *)
(*   - RateLimiter (modules/rate_limiter.py).                              *)
(* Spec is one run of orchestrate against an arbitrary oracle; SpecRL is   *)
(* a single caller driving one RateLimiter.                                *)
(***************************************************************************)
EXTENDS Integers, Sequences, FiniteSets, TLC

VARIABLES
    pc,                 \* position of orchestrate()
    max_api_calls,      \* AutonomousOrchestrator.max_api_calls
    api_calls,          \* AutonomousOrchestrator.api_calls
    invention,          \* orchestrate's local `invention` (a JSON value)
    validation_result,  \* orchestrate's local `validation_result`
    current_score,      \* orchestrate's local `current_score`
    refinement_rounds,  \* orchestrate's local `refinement_rounds`
    cap,                \* max_iterations of the phase run in progress
    loop_i,             \* iterations of the running phase's for-loop so far
    brk,                \* the running phase's loop has hit `break`
    ext_state,          \* ExtractorAgent.state
    val_state,          \* ValidatorAgent.state
    ref_state,          \* RefinerAgent.state
    result,             \* what orchestrate returned (or NoResult)
    raised,             \* the exception that escaped orchestrate ("" if none)
    gen_calls,          \* history: LLMClient.generate() calls made in this run
    iters_done,         \* history: loop iterations executed by all phase runs
    phase_log,          \* history: the phase runs started, in order
    last_obs,           \* history: the last iteration's decision and outcome
    rl_rpm,             \* RateLimiter.requests_per_minute
    rl_interval,        \* RateLimiter.min_request_interval
    request_history,    \* RateLimiter.request_history (deque, maxlen rpm)
    last_request_time,  \* RateLimiter.last_request_time (None as -1)
    now,                \* time.time()
    rl_pc,              \* position of the caller inside acquire()
    wait_time,          \* acquire's local `wait_time`
    rl_log,             \* history: timestamps recorded since the last reset
    rl_last,            \* history: the last operation, what it returned, when
    response_text,      \* a response text handed to _parse_json
    parsed,             \* what _parse_json made of it
    callers,            \* where each thread sharing the RateLimiter is in acquire()
    serialized          \* whether the threads call acquire() one at a time

orch_vars == <<pc, max_api_calls, api_calls, invention, validation_result,
               current_score, refinement_rounds, cap, loop_i, brk, ext_state,
               val_state, ref_state, result, raised, gen_calls, iters_done,
               phase_log, last_obs>>

rl_vars == <<rl_rpm, rl_interval, request_history, last_request_time, now,
             rl_pc, wait_time, rl_log, rl_last>>

text_vars == <<response_text, parsed>>

shared_vars == <<callers, serialized>>

vars == <<orch_vars, rl_vars, text_vars, shared_vars>>

(***************************************************************************)
(* Bounds of the model.                                                    *)
(***************************************************************************)
MaxBudget == 9      \* max_api_calls ranges over 0..MaxBudget
MaxRpm == 2         \* requests_per_minute ranges over 0..MaxRpm
MaxTime == 138      \* the clock stops advancing past MaxTime
MaxAcquires == 3    \* admissions recorded between two resets
MaxCap == 2         \* max_iterations of a phase run called on its own
MaxStart == 66      \* threads sharing a RateLimiter call acquire() up to MaxStart

(***************************************************************************)
(* Values an oracle can put into a Record.  Each sample value stands for   *)
(* a Python value; Attr gives what the scorer reads of it.                 *)
(***************************************************************************)
StrVal(n, parts, ph, prob, sol, cat) ==
    [type |-> "str", len |-> n, strlen |-> n, parts |-> parts, ph |-> ph,
     prob |-> prob, sol |-> sol, tech |-> FALSE, long |-> FALSE,
     valid_cat |-> cat, conf |-> 0, section |-> FALSE]

ListVal(n, strlen, long, tech) ==
    [type |-> "list", len |-> n, strlen |-> strlen, parts |-> 0, ph |-> FALSE,
     prob |-> FALSE, sol |-> FALSE, tech |-> tech, long |-> long,
     valid_cat |-> FALSE, conf |-> 0, section |-> FALSE]

DictVal(n, strlen, conf, section) ==
    [type |-> "dict", len |-> n, strlen |-> strlen, parts |-> 0, ph |-> FALSE,
     prob |-> FALSE, sol |-> FALSE, tech |-> FALSE, long |-> FALSE,
     valid_cat |-> FALSE, conf |-> conf, section |-> section]

Attr(v) ==
    CASE v = "EmptyStr"     -> StrVal(0, 1, FALSE, FALSE, FALSE, FALSE)
      [] v = "EmptyList"    -> ListVal(0, 2, TRUE, FALSE)
      [] v = "EmptyDict"    -> DictVal(0, 2, 0, FALSE)
      [] v = "INV-2024-001" -> StrVal(12, 1, FALSE, FALSE, FALSE, FALSE)
      [] v = "Name"         -> StrVal(24, 1, FALSE, FALSE, FALSE, FALSE)
      [] v = "DescLong"     -> StrVal(140, 4, FALSE, FALSE, FALSE, FALSE)
      [] v = "DescShort"    -> StrVal(20, 1, FALSE, FALSE, FALSE, FALSE)
      [] v = "ProblemText"  -> StrVal(90, 3, FALSE, TRUE, FALSE, FALSE)
      [] v = "SolutionText" -> StrVal(90, 3, FALSE, FALSE, TRUE, FALSE)
      [] v = "TBD"          -> StrVal(3, 1, TRUE, FALSE, FALSE, FALSE)
      [] v = "Process"      -> StrVal(7, 1, FALSE, FALSE, FALSE, TRUE)
      [] v = "Gadget"       -> StrVal(6, 1, FALSE, FALSE, FALSE, FALSE)
      [] v = "AI/ML"        -> StrVal(5, 1, FALSE, FALSE, FALSE, FALSE)
      [] v = "Enhanced"     -> StrVal(160, 4, FALSE, TRUE, TRUE, FALSE)
      [] v = "Features6"    -> ListVal(6, 150, TRUE, TRUE)
      [] v = "Features2"    -> ListVal(2, 20, FALSE, FALSE)
      [] v = "Keywords6"    -> ListVal(6, 70, FALSE, TRUE)
      [] v = "Keywords2"    -> ListVal(2, 20, FALSE, FALSE)
      [] v = "Ctx95"        -> DictVal(2, 60, 95, TRUE)
      [] v = "Ctx50"        -> DictVal(1, 25, 50, FALSE)
      [] v = "RawText"      -> StrVal(40, 2, FALSE, FALSE, FALSE, FALSE)

WEIGHTS_skewed ==
    [completeness |-> 35, technical_depth |-> 25, clarity |-> 20,
     patent_readiness |-> 15, confidence |-> 10]

WEIGHTS ==
    [completeness |-> 30, technical_depth |-> 25, clarity |-> 20,
     patent_readiness |-> 15, confidence |-> 10]

REQUIRED_FIELDS ==
    {"invention_id", "invention_name", "technical_description",
     "problem_statement", "solution_approach", "key_technical_features",
     "statutory_category", "domain_classification", "inventor_keywords",
     "context"}

\* invention.get(k, default) on the fields of a dict
Get(r, k, default) == IF k \in DOMAIN r THEN r[k] ELSE default

(***************************************************************************)
(* InventionScorer.  A sub-score is computed as the code computes it; the  *)
(* *Raises predicates say when the Python expression throws.               *)
(***************************************************************************)
_score_completeness(r) ==
    LET all_present == REQUIRED_FIELDS \subseteq DOMAIN r
        d == Attr(Get(r, "technical_description", "EmptyStr"))
        p == Attr(Get(r, "problem_statement", "EmptyStr"))
        s == Attr(Get(r, "solution_approach", "EmptyStr"))
        adequate_length == d.strlen >= 50 /\ p.strlen >= 30 /\ s.strlen >= 30
        no_placeholders == ~(d.ph \/ p.ph \/ s.ph)
    IN  (IF all_present THEN 10 ELSE 0)
        + (IF adequate_length THEN 10 ELSE 0)
        + (IF no_placeholders THEN 10 ELSE 0)

\* features + keywords, len(), ' '.join and slicing need two lists or two strs
DepthRaises(r) ==
    LET f == Attr(Get(r, "key_technical_features", "EmptyList"))
        k == Attr(Get(r, "inventor_keywords", "EmptyList"))
    IN  ~(f.type = k.type /\ f.type \in {"str", "list"})

_score_technical_depth(r) ==
    LET features == Attr(Get(r, "key_technical_features", "EmptyList"))
        keywords == Attr(Get(r, "inventor_keywords", "EmptyList"))
        \* ' '.join over a str puts a blank between its characters
        tech_terms == features.type = "list" /\ (features.tech \/ keywords.tech)
        specific == IF features.type = "list" THEN features.long
                    ELSE features.len = 0
    IN  (IF features.len >= 5 THEN 8 ELSE IF features.len >= 3 THEN 5 ELSE 0)
        + (IF tech_terms THEN 10 ELSE 0)
        + (IF specific THEN 7 ELSE 0)

\* problem.split('.') and .lower() exist on str only
ClarityRaises(r) ==
    \/ Attr(Get(r, "problem_statement", "EmptyStr")).type # "str"
    \/ Attr(Get(r, "solution_approach", "EmptyStr")).type # "str"

_score_clarity(r) ==
    LET problem == Attr(Get(r, "problem_statement", "EmptyStr"))
        solution == Attr(Get(r, "solution_approach", "EmptyStr"))
    IN  (IF problem.parts >= 2 THEN 7 ELSE 0)
        + (IF solution.parts >= 2 THEN 7 ELSE 0)
        + (IF problem.prob THEN 3 ELSE 0)
        + (IF solution.sol THEN 3 ELSE 0)

_score_patent_readiness(r) ==
    LET category == Attr(Get(r, "statutory_category", "EmptyStr"))
        domain == Attr(Get(r, "domain_classification", "EmptyStr"))
        keywords == Attr(Get(r, "inventor_keywords", "EmptyList"))
    IN  (IF "statutory_category" \in DOMAIN r /\ category.valid_cat THEN 5 ELSE 0)
        + (IF domain.len > 2 THEN 5 ELSE 0)
        + (IF keywords.len >= 5 THEN 5 ELSE 0)

\* context.get exists on dict only
ConfidenceRaises(r) == Attr(Get(r, "context", "EmptyDict")).type # "dict"

_score_confidence(r) ==
    LET context == Attr(Get(r, "context", "EmptyDict"))
    IN  (IF context.conf >= 80 THEN 5 ELSE IF context.conf >= 60 THEN 3 ELSE 0)
        + (IF context.section THEN 5 ELSE 0)

_identify_issues(r) ==
    (IF Attr(Get(r, "key_technical_features", "EmptyList")).len < 5
        THEN <<"Insufficient technical features (need 5+)">> ELSE <<>>)
    \o (IF Attr(Get(r, "technical_description", "EmptyStr")).strlen < 50
        THEN <<"Technical description too brief">> ELSE <<>>)
    \o (IF ~("statutory_category" \in DOMAIN r
             /\ Attr(r["statutory_category"]).valid_cat)
        THEN <<"Invalid statutory category">> ELSE <<>>)
    \o (IF Attr(Get(r, "inventor_keywords", "EmptyList")).len < 5
        THEN <<"Insufficient keywords (need 5+)">> ELSE <<>>)

\* score_invention throws on a Record one of the sub-scores throws on
ScoreRaises(r) == DepthRaises(r) \/ ClarityRaises(r) \/ ConfidenceRaises(r)

\* the five sub-scores of a Record
breakdown(r) ==
    [completeness |-> _score_completeness(r),
     technical_depth |-> _score_technical_depth(r),
     clarity |-> _score_clarity(r),
     patent_readiness |-> _score_patent_readiness(r),
     confidence |-> _score_confidence(r)]

\* int(c * W.c / 30 + t * W.t / 25 + l * W.l / 20 + p * W.p / 15 + f * W.f / 10),
\* the sum taken over the common denominator 300
total_score(b) ==
    (b.completeness * WEIGHTS.completeness * 10
     + b.technical_depth * WEIGHTS.technical_depth * 12
     + b.clarity * WEIGHTS.clarity * 15
     + b.patent_readiness * WEIGHTS.patent_readiness * 20
     + b.confidence * WEIGHTS.confidence * 30) \div 300

\* the dict score_invention returns, lines 40-50
ScoreResult(b, issues) ==
    [total_score |-> total_score(b), issues |-> issues, breakdown |-> b]

score_invention(r) == ScoreResult(breakdown(r), _identify_issues(r))

(***************************************************************************)
(* JSON values.  A Record is a dict; the oracle can also answer with a     *)
(* JSON array (a non-empty list) or with null.                             *)
(***************************************************************************)
EmptyFields == [k \in {} |-> "EmptyStr"]
Dict(f) == [kind |-> "dict", f |-> f]
EmptyDict == Dict(EmptyFields)
JList == [kind |-> "list", f |-> EmptyFields]
JNull == [kind |-> "null", f |-> EmptyFields]

\* the threads that can share one RateLimiter; none of them is running
Callers == {"A", "B"}
NoCallers == [c \in Callers |-> [pc |-> "off", wake |-> 0]]

\* nothing interpreted yet
NoParse == [kind |-> "none", src |-> <<>>]

\* Python truthiness: `if invention`, `not invention`
Truthy(j) == j.kind = "list" \/ (j.kind = "dict" /\ DOMAIN j.f # {})

\* dict.update(other) and d[k] = v
Update(f, g) == [k \in DOMAIN f \cup DOMAIN g |-> IF k \in DOMAIN g THEN g[k] ELSE f[k]]
SetItem(f, k, v) == [x \in DOMAIN f \cup {k} |-> IF x = k THEN v ELSE f[x]]

\* the ten fields the llm_extractor prompt asks for, well formed
GoodFields ==
    [k \in REQUIRED_FIELDS |->
        CASE k = "invention_id" -> "INV-2024-001"
          [] k = "invention_name" -> "Name"
          [] k = "technical_description" -> "DescLong"
          [] k = "problem_statement" -> "ProblemText"
          [] k = "solution_approach" -> "SolutionText"
          [] k = "key_technical_features" -> "Features6"
          [] k = "statutory_category" -> "Process"
          [] k = "domain_classification" -> "AI/ML"
          [] k = "inventor_keywords" -> "Keywords6"
          [] k = "context" -> "Ctx95"]

\* all ten fields, of poor quality
WeakFields ==
    [k \in REQUIRED_FIELDS |->
        CASE k = "invention_id" -> "INV-2024-001"
          [] k = "invention_name" -> "Name"
          [] k = "technical_description" -> "DescShort"
          [] k = "problem_statement" -> "TBD"
          [] k = "solution_approach" -> "SolutionText"
          [] k = "key_technical_features" -> "Features2"
          [] k = "statutory_category" -> "Gadget"
          [] k = "domain_classification" -> "AI/ML"
          [] k = "inventor_keywords" -> "Keywords2"
          [] k = "context" -> "Ctx50"]

\* all ten fields and no issue, yet short of the threshold
DullFields ==
    [k \in REQUIRED_FIELDS |->
        IF k \in {"problem_statement", "solution_approach"} THEN "DescShort"
        ELSE IF k = "context" THEN "Ctx50" ELSE GoodFields[k]]

\* fewer than eight fields
PartialFields ==
    [k \in {"invention_id", "invention_name", "technical_description"} |->
        GoodFields[k]]

\* a field of an unexpected type: the feature list given as text
BadTypeFields == [GoodFields EXCEPT !["key_technical_features"] = "DescLong"]

\* all ten keys, none of them populated: "", [] and {}
BlankFields ==
    [k \in REQUIRED_FIELDS |->
        IF k \in {"key_technical_features", "inventor_keywords"} THEN "EmptyList"
        ELSE IF k = "context" THEN "EmptyDict" ELSE "EmptyStr"]

\* what ToolRegistry._parse_json returns when nothing parses
SentinelFields == [k \in {"raw_response"} |-> "RawText"]

\* response texts of the oracle to a tool, by what they parse to
ToolResponses ==
    {"good_json", "weak_json", "dull_json", "partial_json", "badtype_json",
     "blank_json", "empty_json", "array_json", "null_json", "garbage"}

_parse_json_tool(response) ==
    CASE response = "good_json" -> Dict(GoodFields)
      [] response = "weak_json" -> Dict(WeakFields)
      [] response = "dull_json" -> Dict(DullFields)
      [] response = "partial_json" -> Dict(PartialFields)
      [] response = "badtype_json" -> Dict(BadTypeFields)
      [] response = "blank_json" -> Dict(BlankFields)
      [] response = "empty_json" -> EmptyDict
      [] response = "array_json" -> JList
      [] response = "null_json" -> JNull
      [] response = "garbage" -> Dict(SentinelFields)

(***************************************************************************)
(* Decisions.  A decision is what AutonomousAgent._parse_json makes of the *)
(* oracle's reply: a dict with an optional action, the names of the        *)
(* tool_params it carries and the field_name among them, or a non-dict.    *)
(***************************************************************************)
NoAction == "<no action key>"

Decision(action, params, field_name) ==
    [kind |-> "dict", action |-> action, params |-> params, field_name |-> field_name]

\* the sentinel of AutonomousAgent._parse_json
ParseErrorDecision == Decision("complete", {}, "")

FieldNames == {"technical_description", "key_technical_features", "reviewer_notes"}

\* a reply of the oracle to a decision prompt: text that does not parse,
\* a JSON array, a JSON object (with what it holds), or generate() throwing
Reply(text, d) == [text |-> text, d |-> d]

DecisionReplies ==
    {Reply("garbage", ParseErrorDecision), Reply("array_json", ParseErrorDecision)}
    \cup {Reply("object", Decision(a, {}, "")) :
            a \in {"complete", NoAction, "llm_extractor", "pdf_reader",
                   "section_reader", "field_enhancer", "web_search"}}
    \cup {Reply("object", Decision(a, {"invention"}, "")) :
            a \in {"quick_validator", "field_counter", "validator", "llm_extractor"}}
    \cup {Reply("object", Decision("section_reader", {"section_name"}, ""))}
    \cup {Reply("object", Decision("field_enhancer", {"field_name", "current_value"}, n)) :
            n \in FieldNames}

FatalReply == Reply("fatal", ParseErrorDecision)

_parse_json_agent(reply) ==
    CASE reply.text = "garbage" -> ParseErrorDecision
      [] reply.text = "array_json" -> [kind |-> "list", action |-> NoAction,
                                       params |-> {}, field_name |-> ""]
      [] OTHER -> reply.d

\* decision.get('action') and decision.get('action', 'complete')
ActionOf(d) == d.action
ActionOrComplete(d) == IF d.action = NoAction THEN "complete" ELSE d.action

(***************************************************************************)
(* ToolRegistry: the signature of each tool, and whether its body calls    *)
(* LLMClient.generate.                                                     *)
(***************************************************************************)
ToolParams(tool) ==
    CASE tool = "pdf_reader" -> [required |-> {"pdf_path"}, optional |-> {}]
      [] tool = "llm_extractor" ->
            [required |-> {}, optional |-> {"prompt", "pdf_path", "context"}]
      [] tool = "validator" -> [required |-> {"invention"}, optional |-> {}]
      [] tool = "field_enhancer" ->
            [required |-> {"field_name", "current_value", "invention_context"},
             optional |-> {}]
      [] tool = "quick_validator" -> [required |-> {"invention"}, optional |-> {}]
      [] tool = "section_reader" ->
            [required |-> {"pdf_path", "section_name"}, optional |-> {}]
      [] tool = "field_counter" -> [required |-> {"invention"}, optional |-> {}]

\* tool(**params) binds: every required name given, no unknown name given
Binds(tool, params) ==
    /\ ToolParams(tool).required \subseteq params
    /\ params \subseteq ToolParams(tool).required \cup ToolParams(tool).optional

GatewayTools == {"pdf_reader", "llm_extractor", "field_enhancer", "section_reader"}

ExtractorTools == {"pdf_reader", "llm_extractor", "section_reader",
                   "quick_validator", "field_counter"}
ValidatorTools == {"validator", "quick_validator", "field_counter"}
RefinerTools == {"llm_extractor", "field_enhancer", "section_reader",
                 "field_counter", "quick_validator"}

\* what the validator tool makes of the scorer's result, lines 63-68
Validation(s) ==
    [status |-> "success", present |-> TRUE,
     score |-> s.total_score, issues |-> s.issues]

\* ToolRegistry.validator: the scorer's verdict, or the exception it throws
validator(inv) ==
    IF inv.kind # "dict" \/ ScoreRaises(inv.f)
    THEN [status |-> "error", present |-> FALSE, score |-> 0, issues |-> <<>>]
    ELSE Validation(score_invention(inv.f))

(***************************************************************************)
(* Program constants of AutonomousOrchestrator.orchestrate.                *)
(***************************************************************************)
SCORE_THRESHOLD == 85
max_refinement_rounds == 3
EXTRACTION_CAP == 8
VALIDATION_CAP == 2
REFINEMENT_CAP == 5
EARLY_EXIT_FIELDS == 8

Min(a, b) == IF a <= b THEN a ELSE b

\* validation_result.get("score", 0), validation.get("issues", [])
ScoreOf(vres) == IF vres.present THEN vres.score ELSE 0
IssuesOf(vres) == IF vres.present THEN vres.issues ELSE <<>>

\* the {} a failed ValidatorAgent.run hands back
NoValidation == [present |-> FALSE, score |-> 0, issues |-> <<>>]

NoResult ==
    [invention |-> EmptyDict,
     score |-> [total_score |-> 0, issues |-> <<>>],
     total_api_calls |-> 0, threshold_met |-> FALSE, budget_exceeded |-> FALSE]

\* what an iteration left behind: the phase, the action decided, the status
\* and message of the observation, and the tool whose body was entered
Obs(phase, action, status, text, tool) ==
    [phase |-> phase, action |-> action, status |-> status, text |-> text,
     tool |-> tool]

NoObs == Obs("", "", "", "", "")

(***************************************************************************)
(* AutonomousAgent.execute_action.  `o` is what the Gateway answers if the *)
(* tool's body asks it: a response text, or "fatal" when generate throws.  *)
(***************************************************************************)
Observation(status, json, text, gen) ==
    [status |-> status, json |-> json, text |-> text, gen |-> gen]

execute_action_unchecked(tools, d, params, o, inv) ==
    LET action == ActionOrComplete(d)
        registry == ExtractorTools \cup ValidatorTools \cup RefinerTools
    IN
    IF action = "complete" THEN Observation("complete", JNull, "", 0)
    ELSE IF action \notin registry THEN Observation("error", JNull, "Unknown tool", 0)
    ELSE IF ~Binds(action, params) THEN Observation("error", JNull, "TypeError", 0)
    ELSE IF action \in GatewayTools THEN
        IF o = "fatal" THEN Observation("error", JNull, "GatewayError", 1)
        ELSE IF o = "none" THEN Observation("success", JNull, "", 1)
        ELSE IF action = "llm_extractor"
             THEN Observation("success", _parse_json_tool(o), "", 1)
        ELSE Observation("success", JNull, o, 1)
    ELSE IF action = "validator" THEN
        Observation(validator(inv).status, JNull, "", 0)
    ELSE Observation("success", JNull, "", 0)

execute_action(tools, d, params, o, inv) ==
    LET action == ActionOrComplete(d) IN
    IF action = "complete" THEN Observation("complete", JNull, "", 0)
    ELSE IF action \notin tools THEN Observation("error", JNull, "Unknown tool", 0)
    ELSE IF ~Binds(action, params) THEN Observation("error", JNull, "TypeError", 0)
    ELSE IF action \in GatewayTools THEN
        IF o = "fatal" THEN Observation("error", JNull, "GatewayError", 1)
        ELSE IF action = "llm_extractor"
             THEN Observation("success", _parse_json_tool(o), "", 1)
        ELSE Observation("success", JNull, o, 1)
    ELSE IF action = "validator" THEN
        Observation(validator(inv).status, JNull, "", 0)
    ELSE Observation("success", JNull, "", 0)

\* the answers the Gateway can give inside the tool a decision selects
Outcomes(tools, d, params) ==
    LET action == ActionOrComplete(d) IN
    IF action \in tools /\ action \in GatewayTools /\ Binds(action, params)
    THEN IF action = "llm_extractor" THEN ToolResponses \cup {"fatal"}
         ELSE IF action = "field_enhancer" THEN {"Enhanced", "TBD", "fatal"}
         ELSE {"RawText", "fatal"}
    ELSE {"none"}

\* the tool whose body execute_action enters, "" when it enters none
Invoked(tools, d, params) ==
    LET action == ActionOrComplete(d) IN
    IF action \in tools /\ Binds(action, params) THEN action ELSE ""

(***************************************************************************)
(* AutonomousOrchestrator._finalize.                                       *)
(***************************************************************************)
FinalizeRaises(inv) == Truthy(inv) /\ (inv.kind # "dict" \/ ScoreRaises(inv.f))

\* the dict _finalize returns, lines 98-104
FinalResult(inv, final_score_result, total_calls) ==
    [invention |-> inv,
     score |-> final_score_result,
     total_api_calls |-> total_calls,
     threshold_met |-> final_score_result.total_score >= SCORE_THRESHOLD,
     budget_exceeded |-> total_calls >= max_api_calls]

_finalize_strict(inv, score, total_calls) ==
    LET final_score_result ==
            IF Truthy(inv) THEN score_invention(inv.f)
            ELSE [total_score |-> 0, issues |-> <<"No invention extracted">>]
    IN  [invention |-> inv,
         score |-> final_score_result,
         total_api_calls |-> total_calls,
         threshold_met |-> final_score_result.total_score >= SCORE_THRESHOLD,
         budget_exceeded |-> total_calls > max_api_calls]

_finalize_always_score(inv, score, total_calls) ==
    [invention |-> inv,
     score |-> score_invention(inv.f),
     total_api_calls |-> total_calls,
     threshold_met |-> score_invention(inv.f).total_score >= SCORE_THRESHOLD,
     budget_exceeded |-> total_calls >= max_api_calls]

_finalize(inv, score, total_calls) ==
    FinalResult(inv,
                IF Truthy(inv) THEN score_invention(inv.f)
                ELSE [total_score |-> 0, issues |-> <<"No invention extracted">>],
                total_calls)

(***************************************************************************)
(* The state each phase run starts from (the first lines of run()).        *)
(***************************************************************************)
ExtractorInit == [iteration |-> 0, extraction |-> EmptyDict, artifacts |-> {}]
ValidatorInit == [iteration |-> 0, validation_results |-> NoValidation,
                  score |-> 0, validation_done |-> FALSE]
RefinerInit == [iteration |-> 0, refinements |-> 0]

\* self.state = {} of AutonomousAgent.__init__: state.get("iteration", 0) is 0
Init ==
    /\ pc = "start"
    /\ max_api_calls \in 0..MaxBudget
    /\ api_calls = 0
    /\ invention = EmptyDict
    /\ validation_result = NoValidation
    /\ current_score = 0
    /\ refinement_rounds = 0
    /\ cap = 0 /\ loop_i = 0 /\ brk = FALSE
    /\ ext_state = ExtractorInit
    /\ val_state = ValidatorInit
    /\ ref_state = RefinerInit
    /\ result = NoResult
    /\ raised = ""
    /\ gen_calls = 0 /\ iters_done = 0
    /\ phase_log = <<>>
    /\ last_obs = NoObs
    /\ rl_rpm = 0 /\ rl_interval = 0
    /\ request_history = <<>>
    /\ last_request_time = -1
    /\ now = 0
    /\ rl_pc = "off"
    /\ wait_time = 0
    /\ rl_log = <<>>
    /\ rl_last = [op |-> "", ret |-> 0, at |-> 0]
    /\ response_text = <<>> /\ parsed = NoParse
    /\ callers = NoCallers /\ serialized = FALSE

(***************************************************************************)
(* How orchestrate goes on after a phase run: into _finalize, into a       *)
(* validator run, or to the head of the refinement loop.                   *)
(***************************************************************************)
Raise(exc) ==
    /\ pc' = "raised"
    /\ raised' = exc
    /\ result' = NoResult

Finalize(inv, score, total_calls) ==
    /\ IF FinalizeRaises(inv)
       THEN Raise("ScoringError")
       ELSE /\ pc' = "done"
            /\ raised' = ""
            /\ result' = _finalize(inv, score, total_calls)
    /\ UNCHANGED <<cap, loop_i, brk, val_state, ref_state, phase_log>>

StartValidator(n, next_pc) ==
    /\ pc' = next_pc
    /\ cap' = n /\ loop_i' = 0 /\ brk' = FALSE
    /\ val_state' = ValidatorInit
    /\ phase_log' = Append(phase_log, "validator")
    /\ UNCHANGED <<ref_state, result, raised>>

\* RefinerAgent.run lines 13-27: with nothing to fix the run returns at once
StartRefiner_stale(n, vres) ==
    /\ pc' = "refiner"
    /\ cap' = n /\ loop_i' = 0
    /\ brk' = (IssuesOf(vres) = <<>>)
    /\ ref_state' = IF IssuesOf(vres) = <<>> THEN ref_state ELSE RefinerInit
    /\ phase_log' = Append(phase_log, "refiner")
    /\ UNCHANGED <<val_state, result, raised>>

StartRefiner(n, vres) ==
    /\ pc' = "refiner"
    /\ cap' = n /\ loop_i' = 0
    /\ brk' = (IssuesOf(vres) = <<>>)
    /\ ref_state' = RefinerInit
    /\ phase_log' = Append(phase_log, "refiner")
    /\ UNCHANGED <<val_state, result, raised>>

\* the while condition of line 55 and lines 56-63
WhileTop_two_rounds(inv, vres, score, rounds, calls) ==
    IF score < SCORE_THRESHOLD /\ rounds < max_refinement_rounds - 1
       /\ calls < max_api_calls
    THEN LET remaining_calls == max_api_calls - calls
             refinement_iterations == Min(REFINEMENT_CAP, remaining_calls \div 2)
         IN  IF refinement_iterations <= 0
             THEN Finalize(inv, score, calls)
             ELSE StartRefiner(refinement_iterations, vres)
    ELSE Finalize(inv, score, calls)

WhileTop_no_score(inv, vres, score, rounds, calls) ==
    IF rounds < max_refinement_rounds /\ calls < max_api_calls
    THEN LET remaining_calls == max_api_calls - calls
             refinement_iterations == Min(REFINEMENT_CAP, remaining_calls \div 2)
         IN  IF refinement_iterations <= 0
             THEN Finalize(inv, score, calls)
             ELSE StartRefiner(refinement_iterations, vres)
    ELSE Finalize(inv, score, calls)

WhileTop(inv, vres, score, rounds, calls) ==
    IF score < SCORE_THRESHOLD /\ rounds < max_refinement_rounds
       /\ calls < max_api_calls
    THEN LET remaining_calls == max_api_calls - calls
             refinement_iterations == Min(REFINEMENT_CAP, remaining_calls \div 2)
         IN  IF refinement_iterations <= 0
             THEN Finalize(inv, score, calls)
             ELSE StartRefiner(refinement_iterations, vres)
    ELSE Finalize(inv, score, calls)

(***************************************************************************)
(* orchestrate, lines 32-37, and the first lines of ExtractorAgent.run.    *)
(***************************************************************************)
Start_no_split ==
    /\ pc = "start"
    /\ pc' = "extractor"
    /\ api_calls' = 0
    /\ cap' = Min(EXTRACTION_CAP, max_api_calls)
    /\ loop_i' = 0 /\ brk' = FALSE
    /\ ext_state' = ExtractorInit
    /\ phase_log' = Append(phase_log, "extractor")
    /\ UNCHANGED <<max_api_calls, invention, validation_result, current_score,
                   refinement_rounds, val_state, ref_state, result, raised,
                   gen_calls, iters_done, last_obs, rl_vars, text_vars, shared_vars>>

Start ==
    /\ pc = "start"
    /\ pc' = "extractor"
    /\ api_calls' = 0
    /\ cap' = Min(EXTRACTION_CAP, max_api_calls \div 3)
    /\ loop_i' = 0 /\ brk' = FALSE
    /\ ext_state' = ExtractorInit
    /\ phase_log' = Append(phase_log, "extractor")
    /\ UNCHANGED <<max_api_calls, invention, validation_result, current_score,
                   refinement_rounds, val_state, ref_state, result, raised,
                   gen_calls, iters_done, last_obs, rl_vars, text_vars, shared_vars>>

InLoop_do_while == (loop_i < cap \/ loop_i = 0) /\ ~brk

\* `for i in range(max_iterations)` has another iteration to run: the cap is
\* not reached and no `break` (or early return) has ended the loop
InLoop == loop_i < cap /\ ~brk

\* AutonomousAgent.decide_next_action: one generate() call; the reply is
\* parsed, and logging the decision calls .get on it
DecideRaises(reply) ==
    IF reply.text = "fatal" THEN "GatewayError"
    ELSE IF _parse_json_agent(reply).kind # "dict" THEN "AttributeError"
    ELSE ""

ExtractorEarlyExit_eager(extraction) ==
    /\ Truthy(extraction) /\ extraction.kind = "dict"
    /\ Cardinality(DOMAIN extraction.f) >= 1

\* the early-exit test of ExtractorAgent.run, lines 45-47
ExtractorEarlyExit(extraction) ==
    /\ Truthy(extraction) /\ extraction.kind = "dict"
    /\ Cardinality(DOMAIN extraction.f) >= EARLY_EXIT_FIELDS

ExtractorFold_any_status(st, action, obs) ==
    IF action = "llm_extractor" THEN [st EXCEPT !.extraction = obs.json]
    ELSE IF action = "quick_validator"
         THEN [st EXCEPT !.artifacts = @ \cup {"quick_check"}]
    ELSE IF action = "field_counter"
         THEN [st EXCEPT !.artifacts = @ \cup {"counts"}]
    ELSE st

\* ExtractorAgent.run lines 35-43: folding a successful observation in
ExtractorFold(st, action, obs) ==
    IF obs.status # "success" THEN st
    ELSE IF action = "llm_extractor" THEN [st EXCEPT !.extraction = obs.json]
    ELSE IF action = "quick_validator"
         THEN [st EXCEPT !.artifacts = @ \cup {"quick_check"}]
    ELSE IF action = "field_counter"
         THEN [st EXCEPT !.artifacts = @ \cup {"counts"}]
    ELSE st

(***************************************************************************)
(* One iteration of the for-loop of ExtractorAgent.run (lines 21-47).      *)
(***************************************************************************)
ExtractorIter ==
    /\ pc = "extractor" /\ InLoop
    /\ loop_i' = loop_i + 1
    /\ iters_done' = iters_done + 1
    /\ \E reply \in DecisionReplies \cup {FatalReply} :
        LET st == [ext_state EXCEPT !.iteration = loop_i + 1] IN
        IF DecideRaises(reply) # ""
        THEN /\ Raise(DecideRaises(reply))
             /\ ext_state' = st
             /\ gen_calls' = gen_calls + 1
             /\ last_obs' = Obs("extractor", "", "raise", DecideRaises(reply), "")
             /\ UNCHANGED brk
        ELSE LET d == _parse_json_agent(reply) IN
             IF ActionOf(d) = "complete"
             THEN /\ brk' = TRUE
                  /\ ext_state' = st
                  /\ gen_calls' = gen_calls + 1
                  /\ last_obs' = Obs("extractor", "complete", "break", "", "")
                  /\ UNCHANGED <<pc, raised, result>>
             ELSE LET params == d.params \cup {"pdf_path"} IN
                  \E o \in Outcomes(ExtractorTools, d, params) :
                    LET obs == execute_action(ExtractorTools, d, params, o, invention)
                        st2 == ExtractorFold(st, ActionOf(d), obs)
                    IN  /\ ext_state' = st2
                        /\ gen_calls' = gen_calls + 1 + obs.gen
                        /\ brk' = ExtractorEarlyExit(st2.extraction)
                        /\ last_obs' = Obs("extractor", ActionOf(d), obs.status,
                                           obs.text,
                                           Invoked(ExtractorTools, d, params))
                        /\ UNCHANGED <<pc, raised, result>>
    /\ UNCHANGED <<max_api_calls, api_calls, invention, validation_result,
                   current_score, refinement_rounds, cap, val_state, ref_state,
                   phase_log, rl_vars, text_vars, shared_vars>>

(***************************************************************************)
(* ExtractorAgent.run returns (line 49); orchestrate lines 38-48.          *)
(***************************************************************************)
AfterExtractor ==
    /\ pc = "extractor" /\ ~InLoop
    /\ LET inv == ext_state.extraction
           calls == api_calls + ext_state.iteration
       IN  /\ invention' = inv
           /\ api_calls' = calls
           /\ IF ~Truthy(inv) \/ calls >= max_api_calls
              THEN Finalize(EmptyDict, 0, calls)
              ELSE LET validation_iterations ==
                           Min(VALIDATION_CAP, max_api_calls - calls)
                   IN  IF validation_iterations <= 0
                       THEN Finalize(inv, 0, calls)
                       ELSE StartValidator(validation_iterations, "validator_first")
    /\ UNCHANGED <<max_api_calls, validation_result, current_score,
                   refinement_rounds, ext_state, gen_calls, iters_done,
                   last_obs, rl_vars, text_vars, shared_vars>>

(***************************************************************************)
(* One iteration of the for-loop of ValidatorAgent.run (lines 23-52).      *)
(***************************************************************************)
ValidatorIter ==
    /\ pc \in {"validator_first", "validator_loop"} /\ InLoop
    /\ loop_i' = loop_i + 1
    /\ iters_done' = iters_done + 1
    /\ LET st == [val_state EXCEPT !.iteration = loop_i + 1] IN
       IF ~val_state.validation_done
       THEN LET d == Decision("validator", {"invention"}, "")
                obs == execute_action(ValidatorTools, d, d.params, "none", invention)
                res == validator(invention)
            IN  /\ val_state' =
                     IF obs.status = "success"
                     THEN [st EXCEPT !.validation_results =
                                        [present |-> TRUE, score |-> res.score,
                                         issues |-> res.issues],
                                     !.score = res.score,
                                     !.validation_done = TRUE]
                     ELSE st
                /\ brk' = (obs.status = "success")
                /\ last_obs' = Obs("validator", "validator", obs.status,
                                   IF obs.status = "error" THEN "ScoringError"
                                   ELSE "",
                                   Invoked(ValidatorTools, d, d.params))
                /\ UNCHANGED <<gen_calls, pc, raised, result>>
       ELSE \E reply \in DecisionReplies \cup {FatalReply} :
            /\ val_state' = st
            /\ gen_calls' = gen_calls + 1
            /\ IF DecideRaises(reply) # ""
               THEN /\ Raise(DecideRaises(reply))
                    /\ last_obs' = Obs("validator", "", "raise",
                                       DecideRaises(reply), "")
                    /\ UNCHANGED brk
               ELSE LET d == _parse_json_agent(reply)
                        params == d.params \cup {"invention"}
                        obs == execute_action(ValidatorTools, d, params, "none",
                                              invention)
                    IN  /\ brk' = (ActionOf(d) = "complete")
                        /\ last_obs' = Obs("validator", ActionOf(d), obs.status,
                                           obs.text,
                                           Invoked(ValidatorTools, d, params))
                        /\ UNCHANGED <<pc, raised, result>>
    /\ UNCHANGED <<max_api_calls, api_calls, invention, validation_result,
                   current_score, refinement_rounds, cap, ext_state, ref_state,
                   phase_log, rl_vars, text_vars, shared_vars>>

(***************************************************************************)
(* The first ValidatorAgent.run returns; orchestrate lines 49-63.          *)
(***************************************************************************)
AfterValidatorFirst ==
    /\ pc = "validator_first" /\ ~InLoop
    /\ LET vres == val_state.validation_results
           calls == api_calls + val_state.iteration
       IN  /\ validation_result' = vres
           /\ api_calls' = calls
           /\ current_score' = ScoreOf(vres)
           /\ refinement_rounds' = 0
           /\ WhileTop(invention, vres, ScoreOf(vres), 0, calls)
    /\ UNCHANGED <<max_api_calls, invention, ext_state, gen_calls, iters_done,
                   last_obs, rl_vars, text_vars, shared_vars>>

\* RefinerAgent.run lines 37-50: the defaults injected into tool_params
RefinerParams(d) ==
    d.params
    \cup (IF ActionOf(d) = "section_reader" THEN {"pdf_path"} ELSE {})
    \cup (IF ActionOf(d) = "field_enhancer" THEN {"invention_context"} ELSE {})
    \cup (IF ActionOf(d) = "llm_extractor" THEN {"pdf_path", "context"} ELSE {})

RefinerFold_replace(inv, d, obs) ==
    IF obs.status # "success" \/ inv.kind # "dict" THEN inv
    ELSE IF ActionOf(d) = "field_enhancer"
         THEN IF d.field_name # "" THEN Dict(SetItem(inv.f, d.field_name, obs.text))
              ELSE inv
    ELSE IF ActionOf(d) = "llm_extractor"
         THEN IF obs.json.kind = "dict" THEN obs.json ELSE inv
    ELSE inv

\* RefinerAgent.run lines 56-64: folding a successful observation into the
\* Record (self.state["invention"] is the dict orchestrate holds)
RefinerFold(inv, d, obs) ==
    IF obs.status # "success" \/ inv.kind # "dict" THEN inv
    ELSE IF ActionOf(d) = "field_enhancer"
         THEN IF d.field_name # "" THEN Dict(SetItem(inv.f, d.field_name, obs.text))
              ELSE inv
    ELSE IF ActionOf(d) = "llm_extractor"
         THEN IF obs.json.kind = "dict" THEN Dict(Update(inv.f, obs.json.f))
              ELSE inv
    ELSE inv

(***************************************************************************)
(* One iteration of the for-loop of RefinerAgent.run (lines 29-64).        *)
(***************************************************************************)
RefinerIter ==
    /\ pc = "refiner" /\ InLoop
    /\ loop_i' = loop_i + 1
    /\ iters_done' = iters_done + 1
    /\ \E reply \in DecisionReplies \cup {FatalReply} :
        LET st == [ref_state EXCEPT !.iteration = loop_i + 1] IN
        IF DecideRaises(reply) # ""
        THEN /\ Raise(DecideRaises(reply))
             /\ ref_state' = st
             /\ gen_calls' = gen_calls + 1
             /\ last_obs' = Obs("refiner", "", "raise", DecideRaises(reply), "")
             /\ UNCHANGED <<brk, invention>>
        ELSE LET d == _parse_json_agent(reply) IN
             IF ActionOf(d) = "complete"
             THEN /\ brk' = TRUE
                  /\ ref_state' = st
                  /\ gen_calls' = gen_calls + 1
                  /\ last_obs' = Obs("refiner", "complete", "break", "", "")
                  /\ UNCHANGED <<pc, raised, result, invention>>
             ELSE LET params == RefinerParams(d) IN
                  \E o \in Outcomes(RefinerTools, d, params) :
                    LET obs == execute_action(RefinerTools, d, params, o, invention)
                        inv2 == RefinerFold(invention, d, obs)
                    IN  /\ invention' = inv2
                        /\ ref_state' =
                             IF obs.status = "success"
                                /\ ActionOf(d) = "field_enhancer"
                                /\ d.field_name # ""
                             THEN [st EXCEPT !.refinements = @ + 1]
                             ELSE st
                        /\ gen_calls' = gen_calls + 1 + obs.gen
                        /\ last_obs' = Obs("refiner", ActionOf(d), obs.status,
                                           obs.text,
                                           Invoked(RefinerTools, d, params))
                        /\ UNCHANGED <<brk, pc, raised, result>>
    /\ UNCHANGED <<max_api_calls, api_calls, validation_result, current_score,
                   refinement_rounds, cap, ext_state, val_state, phase_log,
                   rl_vars, text_vars, shared_vars>>

(***************************************************************************)
(* RefinerAgent.run returns; orchestrate lines 64-74.                      *)
(***************************************************************************)
AfterRefiner ==
    /\ pc = "refiner" /\ ~InLoop
    /\ LET calls == api_calls + ref_state.iteration IN
       /\ api_calls' = calls
       /\ IF calls >= max_api_calls
          THEN Finalize(invention, current_score, calls)
          ELSE LET validation_iterations ==
                       Min(VALIDATION_CAP, max_api_calls - calls)
               IN  IF validation_iterations <= 0
                   THEN Finalize(invention, current_score, calls)
                   ELSE StartValidator(validation_iterations, "validator_loop")
    /\ UNCHANGED <<max_api_calls, invention, validation_result, current_score,
                   refinement_rounds, ext_state, gen_calls, iters_done,
                   last_obs, rl_vars, text_vars, shared_vars>>

(***************************************************************************)
(* The in-loop ValidatorAgent.run returns; orchestrate lines 75-81, then   *)
(* the loop head again (55-63) or line 83.                                 *)
(***************************************************************************)
AfterValidatorLoop ==
    /\ pc = "validator_loop" /\ ~InLoop
    /\ LET vres == val_state.validation_results
           calls == api_calls + val_state.iteration
           rounds == refinement_rounds + 1
       IN  /\ validation_result' = vres
           /\ api_calls' = calls
           /\ current_score' = ScoreOf(vres)
           /\ refinement_rounds' = rounds
           /\ IF ScoreOf(vres) >= SCORE_THRESHOLD
              THEN Finalize(invention, ScoreOf(vres), calls)
              ELSE WhileTop(invention, vres, ScoreOf(vres), rounds, calls)
    /\ UNCHANGED <<max_api_calls, invention, ext_state, gen_calls, iters_done,
                   last_obs, rl_vars, text_vars, shared_vars>>

Next ==
    \/ Start
    \/ ExtractorIter
    \/ AfterExtractor
    \/ ValidatorIter
    \/ AfterValidatorFirst
    \/ RefinerIter
    \/ AfterRefiner
    \/ AfterValidatorLoop

Spec == Init /\ [][Next]_vars

(***************************************************************************)
(* One phase run called on its own (SpecPhase): ExtractorAgent.run,        *)
(* ValidatorAgent.run or RefinerAgent.run with any iteration cap and any   *)
(* seed.  `result` then holds what run() returned.                         *)
(***************************************************************************)
\* Records a validator or refiner run can be seeded with
SeedRecords == {EmptyDict, Dict(PartialFields), Dict(WeakFields), Dict(GoodFields)}

\* the validation a refiner run can be handed for a Record
SeedValidations(inv) ==
    {NoValidation,
     [present |-> TRUE, score |-> validator(inv).score,
      issues |-> validator(inv).issues]}

\* the value of ValidatorAgent.run: validation_results, {} when none was made
ReturnedValidation(vres) ==
    IF vres.present THEN [kind |-> "validation", f |-> vres] ELSE EmptyDict

InitPhase ==
    /\ pc \in {"extractor", "validator_first", "refiner"}
    /\ cap \in 0..MaxCap
    /\ invention \in (IF pc = "extractor" THEN {EmptyDict} ELSE SeedRecords)
    /\ validation_result \in
          (IF pc = "refiner" THEN SeedValidations(invention) ELSE {NoValidation})
    /\ brk = (pc = "refiner" /\ IssuesOf(validation_result) = <<>>)
    /\ loop_i = 0
    /\ max_api_calls = 0
    /\ api_calls = 0
    /\ current_score = 0
    /\ refinement_rounds = 0
    /\ ext_state = ExtractorInit
    /\ val_state = ValidatorInit
    /\ ref_state = RefinerInit
    /\ result = NoResult
    /\ raised = ""
    /\ gen_calls = 0 /\ iters_done = 0
    /\ phase_log = <<IF pc = "validator_first" THEN "validator" ELSE pc>>
    /\ last_obs = NoObs
    /\ rl_rpm = 0 /\ rl_interval = 0
    /\ request_history = <<>>
    /\ last_request_time = -1
    /\ now = 0
    /\ rl_pc = "off"
    /\ wait_time = 0
    /\ rl_log = <<>>
    /\ rl_last = [op |-> "", ret |-> 0, at |-> 0]
    /\ response_text = <<>> /\ parsed = NoParse
    /\ callers = NoCallers /\ serialized = FALSE

\* the last line of run(): extractor 49, validator 54, refiner 27 and 66
PhaseReturn ==
    /\ pc \in {"extractor", "validator_first", "refiner"} /\ ~InLoop
    /\ pc' = "returned"
    /\ result' = [returned |->
                    CASE pc = "extractor" -> ext_state.extraction
                      [] pc = "validator_first" ->
                            ReturnedValidation(val_state.validation_results)
                      [] pc = "refiner" -> invention]
    /\ UNCHANGED <<max_api_calls, api_calls, invention, validation_result,
                   current_score, refinement_rounds, cap, loop_i, brk,
                   ext_state, val_state, ref_state, raised, gen_calls,
                   iters_done, phase_log, last_obs, rl_vars, text_vars, shared_vars>>

NextPhase ==
    \/ ExtractorIter
    \/ ValidatorIter
    \/ RefinerIter
    \/ PhaseReturn

SpecPhase == InitPhase /\ [][NextPhase]_vars

(***************************************************************************)
(* RateLimiter (modules/rate_limiter.py).  Time is counted in seconds.     *)
(* acquire() is three steps of its caller: computing the wait, sleeping,   *)
(* recording; the clock moves on between and during them.                  *)
(***************************************************************************)
window_duration == 60

\* the settings a RateLimiter is constructed with
IntervalChoices == {0, 6, 66}

\* seconds that can pass between two operations of the caller
TickChoices == {6, 30}

\* seconds by which time.sleep and the step to _record_request can overrun
DelayChoices == {0, 6}

Max(a, b) == IF a >= b THEN a ELSE b

\* the longest wait _calculate_wait_time can ask for
LongestWait == Max(66, window_duration)

DequeAppend_unbounded(q, x, n) == Append(q, x)

\* deque(maxlen=n).append(x)
DequeAppend(q, x, n) ==
    IF n = 0 THEN <<>>
    ELSE IF Len(q) >= n THEN Append(Tail(q), x)
    ELSE Append(q, x)

\* request_history[0] on an empty deque is an IndexError
CalcRaises == Len(request_history) >= rl_rpm /\ request_history = <<>>

_calculate_wait_time_min(current_time) ==
    LET time_since_last == current_time - last_request_time
        interval_binds == last_request_time # -1 /\ time_since_last < rl_interval
        time_since_oldest == current_time - request_history[1]
        rpm_binds == /\ Len(request_history) >= rl_rpm
                     /\ request_history # <<>>
                     /\ time_since_oldest < window_duration
    IN  IF interval_binds /\ rpm_binds
        THEN Min(rl_interval - time_since_last, window_duration - time_since_oldest)
        ELSE IF interval_binds THEN rl_interval - time_since_last
        ELSE IF rpm_binds THEN window_duration - time_since_oldest
        ELSE 0

_calculate_wait_time_off_by_one(current_time) ==
    LET time_since_last == current_time - last_request_time
        interval_binds == last_request_time # -1 /\ time_since_last < rl_interval
    IN  IF interval_binds THEN rl_interval - time_since_last ELSE 0

_calculate_wait_time(current_time) ==
    LET time_since_last == current_time - last_request_time
        interval_binds == last_request_time # -1 /\ time_since_last < rl_interval
        time_since_oldest == current_time - request_history[1]
        rpm_binds == /\ Len(request_history) >= rl_rpm
                     /\ request_history # <<>>
                     /\ time_since_oldest < window_duration
    IN  IF interval_binds /\ rpm_binds
        THEN Max(rl_interval - time_since_last, window_duration - time_since_oldest)
        ELSE IF interval_binds THEN rl_interval - time_since_last
        ELSE IF rpm_binds THEN window_duration - time_since_oldest
        ELSE 0

\* RateLimiter.__init__ at time 0, the orchestrator not running
InitRL ==
    /\ pc = "off"
    /\ max_api_calls = 0
    /\ api_calls = 0
    /\ invention = EmptyDict
    /\ validation_result = NoValidation
    /\ current_score = 0
    /\ refinement_rounds = 0
    /\ cap = 0 /\ loop_i = 0 /\ brk = FALSE
    /\ ext_state = ExtractorInit
    /\ val_state = ValidatorInit
    /\ ref_state = RefinerInit
    /\ result = NoResult
    /\ raised = ""
    /\ gen_calls = 0 /\ iters_done = 0
    /\ phase_log = <<>>
    /\ last_obs = NoObs
    /\ rl_rpm \in 0..MaxRpm
    /\ rl_interval \in IntervalChoices
    /\ request_history = <<>>
    /\ last_request_time = -1
    /\ now = 0
    /\ rl_pc = "idle"
    /\ wait_time = 0
    /\ rl_log = <<>>
    /\ rl_last = [op |-> "", ret |-> 0, at |-> 0]
    /\ response_text = <<>> /\ parsed = NoParse
    /\ callers = NoCallers /\ serialized = FALSE

\* the caller does something else for a while
Tick ==
    /\ rl_pc = "idle"
    /\ \E dt \in TickChoices : now + dt <= MaxTime /\ now' = now + dt
    /\ UNCHANGED <<rl_rpm, rl_interval, request_history, last_request_time,
                   rl_pc, wait_time, rl_log, rl_last, orch_vars, text_vars, shared_vars>>

\* acquire, line 65: wait_time = self._calculate_wait_time()
AcquireCalc ==
    /\ rl_pc = "idle"
    /\ Len(rl_log) < MaxAcquires
    /\ now + LongestWait + 6 <= MaxTime
    /\ IF CalcRaises
       THEN /\ rl_pc' = "raised"
            /\ rl_last' = [op |-> "IndexError", ret |-> 0, at |-> now]
            /\ UNCHANGED wait_time
       ELSE /\ wait_time' = _calculate_wait_time(now)
            /\ rl_pc' = IF _calculate_wait_time(now) > 0 THEN "sleeping" ELSE "record"
            /\ UNCHANGED rl_last
    /\ UNCHANGED <<rl_rpm, rl_interval, request_history, last_request_time,
                   now, rl_log, orch_vars, text_vars, shared_vars>>

\* acquire, lines 67-70: time.sleep(wait_time) suspends for at least that long
Sleep ==
    /\ rl_pc = "sleeping"
    /\ \E over \in DelayChoices : now' = now + wait_time + over
    /\ rl_pc' = "record"
    /\ UNCHANGED <<rl_rpm, rl_interval, request_history, last_request_time,
                   wait_time, rl_log, rl_last, orch_vars, text_vars, shared_vars>>

\* acquire, lines 72-75, and _record_request, which reads the clock again
RecordRequest ==
    /\ rl_pc = "record"
    /\ \E late \in DelayChoices :
        LET current_time == now + late IN
        /\ now' = current_time
        /\ request_history' = DequeAppend(request_history, current_time, rl_rpm)
        /\ last_request_time' = current_time
        /\ rl_log' = Append(rl_log, current_time)
    /\ rl_pc' = "idle"
    /\ rl_last' = [op |-> "acquire", ret |-> wait_time, at |-> now']
    /\ UNCHANGED <<rl_rpm, rl_interval, wait_time, orch_vars, text_vars, shared_vars>>

GetStats_recording ==
    /\ rl_pc = "idle"
    /\ ~CalcRaises
    /\ rl_last' = [op |-> "get_stats", ret |-> _calculate_wait_time(now),
                   at |-> now]
    /\ request_history' = DequeAppend(request_history, now, rl_rpm)
    /\ last_request_time' = now
    /\ UNCHANGED <<rl_rpm, rl_interval, now, rl_pc, wait_time, rl_log, orch_vars, text_vars, shared_vars>>

\* RateLimiter.get_stats
GetStats ==
    /\ rl_pc = "idle"
    /\ IF CalcRaises
       THEN /\ rl_pc' = "raised"
            /\ rl_last' = [op |-> "IndexError", ret |-> 0, at |-> now]
       ELSE /\ rl_pc' = "idle"
            /\ rl_last' = [op |-> "get_stats", ret |-> _calculate_wait_time(now),
                            at |-> now]
    /\ UNCHANGED <<rl_rpm, rl_interval, request_history, last_request_time,
                   now, wait_time, rl_log, orch_vars, text_vars, shared_vars>>

\* RateLimiter.reset
Reset ==
    /\ rl_pc = "idle"
    /\ rl_last.op # "reset"
    /\ request_history' = <<>>
    /\ last_request_time' = -1
    /\ rl_log' = <<>>
    /\ rl_last' = [op |-> "reset", ret |-> 0, at |-> now]
    /\ UNCHANGED <<rl_rpm, rl_interval, now, rl_pc, wait_time, orch_vars, text_vars, shared_vars>>

NextRL ==
    \/ Tick
    \/ AcquireCalc
    \/ Sleep
    \/ RecordRequest
    \/ GetStats
    \/ Reset

SpecRL == InitRL /\ [][NextRL]_vars

\* the caller's thread runs on: time.sleep returns and the line after it is
\* executed
SpecRLLive == SpecRL /\ WF_vars(Sleep) /\ WF_vars(RecordRequest)

(***************************************************************************)
(* Two threads sharing one RateLimiter.  Each runs acquire() as the three  *)
(* steps compute-wait, sleep, record; when serialized, a thread enters     *)
(* acquire() only while no other thread is inside it.                      *)
(***************************************************************************)
InitShared ==
    /\ pc = "off"
    /\ max_api_calls = 0
    /\ api_calls = 0
    /\ invention = EmptyDict
    /\ validation_result = NoValidation
    /\ current_score = 0
    /\ refinement_rounds = 0
    /\ cap = 0 /\ loop_i = 0 /\ brk = FALSE
    /\ ext_state = ExtractorInit
    /\ val_state = ValidatorInit
    /\ ref_state = RefinerInit
    /\ result = NoResult
    /\ raised = ""
    /\ gen_calls = 0 /\ iters_done = 0
    /\ phase_log = <<>>
    /\ last_obs = NoObs
    /\ rl_rpm \in 0..MaxRpm
    /\ rl_interval \in IntervalChoices
    /\ request_history = <<>>
    /\ last_request_time = -1
    /\ now = 0
    /\ rl_pc = "off"
    /\ wait_time = 0
    /\ rl_log = <<>>
    /\ rl_last = [op |-> "", ret |-> 0, at |-> 0]
    /\ response_text = <<>> /\ parsed = NoParse
    /\ callers = [c \in Callers |-> [pc |-> "idle", wake |-> 0]]
    /\ serialized \in BOOLEAN

Inside(c) == callers[c].pc \in {"sleeping", "record"}

MayEnter_unlocked(c) == TRUE

\* the admission queue: nobody else is inside acquire()
MayEnter(c) == serialized => \A d \in Callers \ {c} : ~Inside(d)

\* time passes for every thread: between calls, and while one sleeps
Advance ==
    /\ \/ now < MaxStart
       \/ \E c \in Callers : callers[c].pc = "sleeping" /\ now < callers[c].wake
    /\ \E dt \in TickChoices : now + dt <= MaxTime /\ now' = now + dt
    /\ UNCHANGED <<rl_rpm, rl_interval, request_history, last_request_time,
                   rl_pc, wait_time, rl_log, rl_last, orch_vars, text_vars,
                   shared_vars>>

\* acquire, line 65, by thread c
SharedCalc(c) ==
    /\ callers[c].pc = "idle" /\ MayEnter(c)
    /\ Len(rl_log) < MaxAcquires
    /\ now <= MaxStart
    /\ callers' = [callers EXCEPT ![c] =
                     IF CalcRaises THEN [pc |-> "raised", wake |-> now]
                     ELSE IF _calculate_wait_time(now) > 0
                          THEN [pc |-> "sleeping",
                                wake |-> now + _calculate_wait_time(now)]
                     ELSE [pc |-> "record", wake |-> now]]
    /\ UNCHANGED <<rl_rpm, rl_interval, request_history, last_request_time,
                   now, rl_pc, wait_time, rl_log, rl_last, orch_vars, text_vars,
                   serialized>>

\* acquire, lines 67-70: time.sleep(wait_time) is over for thread c
SharedWake(c) ==
    /\ callers[c].pc = "sleeping" /\ now >= callers[c].wake
    /\ callers' = [callers EXCEPT ![c].pc = "record"]
    /\ UNCHANGED <<rl_rpm, rl_interval, request_history, last_request_time,
                   now, rl_pc, wait_time, rl_log, rl_last, orch_vars, text_vars,
                   serialized>>

\* acquire, lines 72-75, and _record_request by thread c
SharedRecord(c) ==
    /\ callers[c].pc = "record"
    /\ request_history' = DequeAppend(request_history, now, rl_rpm)
    /\ last_request_time' = now
    /\ rl_log' = Append(rl_log, now)
    /\ callers' = [callers EXCEPT ![c].pc = "idle"]
    /\ UNCHANGED <<rl_rpm, rl_interval, now, rl_pc, wait_time, rl_last,
                   orch_vars, text_vars, serialized>>

NextShared ==
    \/ Advance
    \/ \E c \in Callers : SharedCalc(c)
    \/ \E c \in Callers : SharedWake(c)
    \/ \E c \in Callers : SharedRecord(c)

SpecShared == InitShared /\ [][NextShared]_vars

(***************************************************************************)
(* The pure functions on their own: score_invention applied to a Record,   *)
(* to the same Record with one more required field, and _parse_json        *)
(* applied to a response text.                                             *)
(*                                                                         *)
(* A text is a sequence of tokens: "F" a ``` fence line (with or without   *)
(* the json tag), "{" "}" "[" "]" the brackets, "n" a JSON scalar, "x" a   *)
(* word that is not JSON.  Keys, commas and blanks are left out: the       *)
(* values between two brackets are taken to be punctuated correctly.       *)
(***************************************************************************)
MaxText == 5        \* a response text has at most MaxText tokens

Tokens == {"F", "{", "}", "[", "]", "n", "x"}

\* the texts of at most max tokens
Texts(max) == UNION {[1..n -> Tokens] : n \in 0..max}

Closer(t) == IF t = "{" THEN "}" ELSE "]"

\* json.loads reading s from token i inside the open brackets of stack:
\* TRUE when s is exactly one JSON value
RECURSIVE Loads(_, _, _)
Loads(s, i, stack) ==
    IF i > Len(s) THEN FALSE
    ELSE CASE s[i] \in {"x", "F"} -> FALSE
           [] s[i] = "n" ->
                IF stack = <<>> THEN i = Len(s) ELSE Loads(s, i + 1, stack)
           [] s[i] \in {"{", "["} -> Loads(s, i + 1, <<s[i]>> \o stack)
           [] s[i] \in {"}", "]"} ->
                IF stack = <<>> \/ Closer(Head(stack)) # s[i] THEN FALSE
                ELSE IF Tail(stack) = <<>> THEN i = Len(s)
                ELSE Loads(s, i + 1, Tail(stack))

\* the value json.loads(json_str) returns, "bad" when it throws
json_loads(json_str) ==
    IF ~Loads(json_str, 1, <<>>) THEN "bad"
    ELSE CASE json_str[1] = "{" -> "object"
           [] json_str[1] = "[" -> "array"
           [] json_str[1] = "n" -> "scalar"

Positions(s, t) == {i \in 1..Len(s) : s[i] = t}
First(S) == CHOOSE i \in S : \A j \in S : i <= j
Last(S) == CHOOSE i \in S : \A j \in S : i >= j

\* re.search(r'```(?:json)?\s*([\s\S]*?)\s*```', response): the first fence
\* and, the group being lazy, the next one after it
FenceMatch(s) == Cardinality(Positions(s, "F")) >= 2

FenceGroup(s) ==
    LET a == First(Positions(s, "F"))
        b == First(Positions(s, "F") \ {a})
    IN  SubSeq(s, a + 1, b - 1)

\* re.search(r'\{[\s\S]*\}', response): the first "{" and, the star being
\* greedy, the last "}" after it
ObjMatch(s) ==
    /\ Positions(s, "{") # {} /\ Positions(s, "}") # {}
    /\ First(Positions(s, "{")) < Last(Positions(s, "}"))

ObjGroup(s) == SubSeq(s, First(Positions(s, "{")), Last(Positions(s, "}")))

\* the failure value: {"raw_response": response} of the tools, the
\* "Parse error" decision of the agent
ParseSentinel(response) == [kind |-> "sentinel", src |-> response]

_parse_json(response) ==
    LET json_str == IF FenceMatch(response) THEN FenceGroup(response)
                    ELSE IF ObjMatch(response) THEN ObjGroup(response)
                    ELSE response
    IN  IF json_loads(json_str) = "bad" THEN ParseSentinel(response)
        ELSE [kind |-> json_loads(json_str), src |-> json_str]

\* the Records handed to the scorer: the fields of a sample extraction, or
\* any part of them
ScoreBases == {GoodFields, WeakFields, DullFields, BadTypeFields}

Restrict(f, S) == [k \in S |-> f[k]]

ScoreInputs(bases) ==
    {Dict(Restrict(b, S)) : b \in bases, S \in SUBSET REQUIRED_FIELDS}

FieldValues(k) == {b[k] : b \in ScoreBases}

InitPure ==
    /\ \/ pc = "to_score" /\ invention \in ScoreInputs(ScoreBases) /\ response_text = <<>>
       \/ pc = "to_parse" /\ invention = EmptyDict /\ response_text \in Texts(MaxText)
    /\ parsed = NoParse
    /\ callers = NoCallers /\ serialized = FALSE
    /\ max_api_calls = 0
    /\ api_calls = 0
    /\ validation_result = NoValidation
    /\ current_score = 0
    /\ refinement_rounds = 0
    /\ cap = 0 /\ loop_i = 0 /\ brk = FALSE
    /\ ext_state = ExtractorInit
    /\ val_state = ValidatorInit
    /\ ref_state = RefinerInit
    /\ result = NoResult
    /\ raised = ""
    /\ gen_calls = 0 /\ iters_done = 0
    /\ phase_log = <<>>
    /\ last_obs = NoObs
    /\ rl_rpm = 0 /\ rl_interval = 0
    /\ request_history = <<>>
    /\ last_request_time = -1
    /\ now = 0
    /\ rl_pc = "off"
    /\ wait_time = 0
    /\ rl_log = <<>>
    /\ rl_last = [op |-> "", ret |-> 0, at |-> 0]

\* scorer.score_invention(invention)
Score ==
    /\ pc \in {"to_score", "to_rescore"}
    /\ IF ScoreRaises(invention.f)
          THEN /\ pc' = "raised"
               /\ raised' = "ScoringError"
               /\ UNCHANGED result
          ELSE /\ pc' = (IF pc = "to_score" THEN "scored" ELSE "rescored")
               /\ result' = score_invention(invention.f)
               /\ UNCHANGED raised
    /\ UNCHANGED <<max_api_calls, api_calls, invention, validation_result,
                   current_score, refinement_rounds, cap, loop_i, brk,
                   ext_state, val_state, ref_state, gen_calls, iters_done,
                   phase_log, last_obs, rl_vars, text_vars, shared_vars>>

\* the caller keeps the score and gives the Record one more required field
AddField ==
    /\ pc = "scored"
    /\ \E k \in REQUIRED_FIELDS \ DOMAIN invention.f :
         \E v \in FieldValues(k) :
            invention' = Dict(SetItem(invention.f, k, v))
    /\ current_score' = result.total_score
    /\ pc' = "to_rescore"
    /\ UNCHANGED <<max_api_calls, api_calls, validation_result,
                   refinement_rounds, cap, loop_i, brk, ext_state, val_state,
                   ref_state, result, raised, gen_calls, iters_done,
                   phase_log, last_obs, rl_vars, text_vars, shared_vars>>

\* self._parse_json(response)
Interpret ==
    /\ pc = "to_parse"
    /\ parsed' = _parse_json(response_text)
    /\ pc' = "parsed"
    /\ UNCHANGED <<max_api_calls, api_calls, invention, validation_result,
                   current_score, refinement_rounds, cap, loop_i, brk,
                   ext_state, val_state, ref_state, result, raised, gen_calls,
                   iters_done, phase_log, last_obs, rl_vars, response_text, shared_vars>>

NextPure ==
    \/ Score
    \/ AddField
    \/ Interpret

SpecPure == InitPure /\ [][NextPure]_vars

(***************************************************************************)
(* Properties of one orchestration run (Spec).                             *)
(***************************************************************************)
Count(log, phase) == Cardinality({i \in 1..Len(log) : log[i] = phase})

\* the iteration counter of the phase run in progress, 0 between runs
RunningIteration ==
    CASE pc = "extractor" -> ext_state.iteration
      [] pc \in {"validator_first", "validator_loop"} -> val_state.iteration
      [] pc = "refiner" -> ref_state.iteration
      [] OTHER -> 0

\* the extractor run has returned to orchestrate
ExtractorReturned == pc = "done" \/ Len(phase_log) >= 2

\* a Record the scorer rates at the threshold or above
ScoresAtThreshold(inv) ==
    /\ inv.kind = "dict" /\ ~ScoreRaises(inv.f)
    /\ total_score(breakdown(inv.f)) >= SCORE_THRESHOLD

C1_Accounting ==
    /\ pc # "raised" => api_calls + RunningIteration = iters_done
    /\ api_calls <= max_api_calls
    /\ pc = "done" => /\ result.total_api_calls = api_calls
                      /\ result.total_api_calls <= max_api_calls

\* C1: api_calls is the sum of the iteration counts of the phase runs
\* finished so far (the iterations executed, less those of the run in
\* progress), never decreases during the run, and never exceeds
\* max_api_calls, in the result's total_api_calls either.
C1_Budget_Accounting == [](C1_Accounting) /\ [][api_calls' >= api_calls]_vars

C1_Witness ==
    /\ pc = "done"
    /\ Count(phase_log, "refiner") >= 2 /\ Count(phase_log, "validator") >= 3
    /\ api_calls >= 5

\* C2: the generate() calls made in a run never exceed max_api_calls.
C2_Gateway_Calls_Within_Budget == gen_calls <= max_api_calls

\* C3 as stated: a run that returns has threshold_met or budget_exceeded.
C3_Threshold_Or_Budget ==
    pc = "done" => result.threshold_met \/ result.budget_exceeded

\* C3, amended: a run that returns has threshold_met or budget_exceeded,
\* or it returns the empty Record because extraction produced nothing, or
\* it has completed three refinement rounds, or exactly one call of the
\* budget is left, which is too little for a refiner run.
C3_Threshold_Budget_Or_Stop ==
    pc = "done" =>
        \/ result.threshold_met
        \/ result.budget_exceeded
        \/ (phase_log = <<"extractor">> /\ result.invention = EmptyDict)
        \/ refinement_rounds = max_refinement_rounds
        \/ max_api_calls - api_calls = 1

C3_Witness ==
    /\ pc = "done" /\ ~result.threshold_met /\ ~result.budget_exceeded
    /\ refinement_rounds = max_refinement_rounds
    /\ max_api_calls - api_calls > 1

\* C4: unless a Gateway call throws, orchestrate reaches _finalize, having
\* run the extractor once, the refiner at most 3 times and the validator
\* at most 4 times.
C4_Reaches_Finalize ==
    /\ pc = "raised" => raised \in {"GatewayError", "ScoringError"}
    /\ (pc = "done" \/ raised = "ScoringError") =>
            /\ Count(phase_log, "extractor") = 1
            /\ Count(phase_log, "refiner") <= 3
            /\ Count(phase_log, "validator") <= 4

\* C5: in every result, threshold_met says whether the scorer rates the
\* returned Record at 85 or more, whatever score the last validator run
\* reported, and budget_exceeded says whether total_api_calls has reached
\* max_api_calls.
C5_Flags_From_Final_Record ==
    pc = "done" =>
        /\ result.threshold_met <=> (total_score(breakdown(result.invention.f)) >= SCORE_THRESHOLD)
        /\ result.budget_exceeded <=> (result.total_api_calls >= max_api_calls)
        /\ result.score.total_score =
              IF Truthy(result.invention) THEN total_score(breakdown(result.invention.f)) ELSE 0

C5_Witness ==
    /\ pc = "done" /\ result.threshold_met /\ result.budget_exceeded
    /\ refinement_rounds >= 1

\* C6: if the Record the extractor returns scores 85 or more, the validator
\* runs exactly once, for one iteration, no refiner round runs, nothing is
\* thrown, and the result has threshold_met.
C6_Good_Extraction_Converges ==
    (ExtractorReturned /\ ScoresAtThreshold(ext_state.extraction)) =>
        /\ pc # "raised"
        /\ Count(phase_log, "refiner") = 0
        /\ Count(phase_log, "validator") = 1
        /\ refinement_rounds = 0
        /\ pc = "done" => /\ val_state.iteration = 1
                          /\ result.threshold_met
                          /\ result.invention = ext_state.extraction

C6_Witness ==
    /\ pc = "done" /\ ScoresAtThreshold(ext_state.extraction)
    /\ result.threshold_met

\* C7 as stated: with max_api_calls = 2 the extractor consumes both calls
\* and the result has budget_exceeded, with total_score 0 when extraction
\* produced nothing.
C7_Budget_Two_Exceeded ==
    (max_api_calls = 2 /\ pc = "done") =>
        /\ result.total_api_calls = 2
        /\ result.budget_exceeded
        /\ ~Truthy(ext_state.extraction) => result.score.total_score = 0

\* C7, amended: with max_api_calls = 2 the extractor's cap is 2 // 3 = 0,
\* so it makes no iteration and no Gateway call; the run returns the empty
\* Record with total_score 0, total_api_calls 0, threshold_met false and
\* budget_exceeded false, and no other phase runs.
C7_Budget_Two_Does_Nothing ==
    max_api_calls = 2 =>
        /\ pc # "raised"
        /\ gen_calls = 0 /\ iters_done = 0
        /\ Len(phase_log) <= 1
        /\ pc = "done" => /\ result.invention = EmptyDict
                          /\ result.score.total_score = 0
                          /\ result.total_api_calls = 0
                          /\ ~result.threshold_met
                          /\ ~result.budget_exceeded

C7_Witness == max_api_calls = 2 /\ pc = "done" /\ phase_log = <<"extractor">>

\* C8: when refinement stops for lack of budget with the score below 85
\* and fewer than 3 rounds run, the result carries the current Record, not
\* an empty one, and budget_exceeded.
C8_Budget_Stop_Flagged ==
    (/\ pc = "done"
     /\ Count(phase_log, "validator") >= 1
     /\ current_score < SCORE_THRESHOLD
     /\ refinement_rounds < max_refinement_rounds) =>
        /\ result.invention = invention
        /\ Truthy(result.invention)
        /\ result.budget_exceeded

\* C9: if the extractor returns an empty Record, orchestrate finalizes at
\* once: no validator or refiner run, the result's Record is empty, its
\* total_score is 0 and threshold_met is false.
C9_Empty_Extraction_Finalizes ==
    (ExtractorReturned /\ ~Truthy(ext_state.extraction)) =>
        /\ pc = "done"
        /\ phase_log = <<"extractor">>
        /\ result.invention = EmptyDict
        /\ result.score.total_score = 0
        /\ ~result.threshold_met

C9_Witness ==
    /\ pc = "done" /\ ext_state.extraction = EmptyDict
    /\ ext_state.iteration >= 2 /\ gen_calls >= 3

(***************************************************************************)
(* Properties of a RateLimiter driven by a single caller (SpecRL).         *)
(***************************************************************************)
\* C10: every two consecutive timestamps recorded by acquire() with no
\* reset in between are at least min_request_interval apart.
C10_Min_Interval ==
    \A i \in 1..(Len(rl_log) - 1) : rl_log[i + 1] - rl_log[i] >= rl_interval

C10_Witness ==
    /\ Len(rl_log) >= 3 /\ rl_interval = 6
    /\ rl_log[2] - rl_log[1] = rl_interval
    /\ rl_log[3] - rl_log[2] > rl_interval

\* the caller's step into acquire(): line 65 computes the wait or raises
AcquireCalled == rl_pc = "idle" /\ rl_pc' \in {"sleeping", "record", "raised"}

\* the caller's step through get_stats()
StatsCalled == rl_pc = "idle" /\ rl_last' # rl_last /\ rl_last'.op = "get_stats"

\* C11: with requests_per_minute = N >= 1, the admission recorded N places
\* after another one is at least 60 seconds later: no N + 1 admissions fall
\* within a span shorter than the window.
C11_Window_Cap ==
    rl_rpm >= 1 =>
        \A i \in 1..Len(rl_log) :
            i + rl_rpm <= Len(rl_log) =>
                rl_log[i + rl_rpm] - rl_log[i] >= window_duration

C11_Witness ==
    /\ rl_rpm = 2 /\ rl_interval = 0 /\ Len(rl_log) = 3
    /\ rl_log[2] - rl_log[1] < window_duration
    /\ rl_log[3] - rl_log[1] = window_duration
    /\ rl_last.op = "acquire" /\ rl_last.ret > 0

\* the wait the two rules ask for at the instant `now`, from the admissions
\* since the last reset
C12_interval_wait ==
    IF rl_log # <<>> /\ now - rl_log[Len(rl_log)] < rl_interval
    THEN rl_interval - (now - rl_log[Len(rl_log)]) ELSE 0

C12_window_wait ==
    IF rl_rpm >= 1 /\ Len(rl_log) >= rl_rpm
       /\ now - rl_log[Len(rl_log) - rl_rpm + 1] < window_duration
    THEN window_duration - (now - rl_log[Len(rl_log) - rl_rpm + 1]) ELSE 0

\* C12: acquire() waits max(interval_wait, window_wait), which is 0 when
\* neither binds (the first call on a fresh limiter included), records the
\* timestamp only after the wait and returns the waited amount.
C12_Waits_Max ==
    [][/\ AcquireCalled =>
            /\ rl_pc' # "raised"
            /\ wait_time' = Max(C12_interval_wait, C12_window_wait)
            /\ rl_log' = rl_log
       /\ rl_pc = "sleeping" => (now' >= now + wait_time /\ rl_log' = rl_log)
       /\ rl_pc = "record" =>
            /\ rl_log' = Append(rl_log, now')
            /\ rl_last' = [op |-> "acquire", ret |-> wait_time, at |-> now']
      ]_vars

\* C13: no operation of a RateLimiter raises, whatever its configuration.
C13_Never_Raises == rl_pc # "raised"

\* C14: get_stats() leaves request_history and last_request_time as they
\* were, and the wait it reports is the wait an acquire() that follows at
\* the same instant computes.
C14_Stats_Pure ==
    [][/\ StatsCalled =>
            /\ request_history' = request_history
            /\ last_request_time' = last_request_time
       /\ (AcquireCalled /\ rl_last.op = "get_stats" /\ rl_last.at = now
           /\ rl_pc' # "raised") =>
            /\ wait_time' = rl_last.ret
            /\ wait_time' = Max(C12_interval_wait, C12_window_wait)
      ]_vars

C14_Witness ==
    /\ rl_pc = "sleeping" /\ rl_last.op = "get_stats" /\ rl_last.at = now
    /\ wait_time = rl_last.ret /\ wait_time > 0
    /\ Len(rl_log) >= 1

\* C15: the acquire() that follows a reset() waits 0, however many calls
\* were admitted before the reset, because reset() empties request_history
\* and clears last_request_time.
C15_Reset_Then_No_Wait ==
    [][/\ (rl_last'.op = "reset" /\ rl_last.op # "reset") =>
            /\ request_history' = <<>>
            /\ last_request_time' = -1
       /\ (AcquireCalled /\ rl_last.op = "reset") =>
            /\ rl_pc' = "record"
            /\ wait_time' = 0
      ]_vars

\* C16: request_history holds at most requests_per_minute timestamps, the
\* most recent of the admissions since the last reset, oldest first, and
\* its newest entry is last_request_time.
C16_History_Is_Recent_Window ==
    LET k == Len(rl_log)
        m == Min(k, rl_rpm)
    IN  /\ Len(request_history) <= rl_rpm
        /\ request_history = SubSeq(rl_log, k - m + 1, k)
        /\ \A i \in 1..(Len(request_history) - 1) :
               request_history[i] <= request_history[i + 1]
        /\ request_history # <<>> =>
               request_history[Len(request_history)] = last_request_time

C16_Witness ==
    /\ rl_rpm = 2 /\ Len(rl_log) = 3
    /\ request_history = <<rl_log[2], rl_log[3]>>
    /\ rl_log[1] < rl_log[2] /\ rl_log[2] < rl_log[3]
    /\ last_request_time = rl_log[3]

(***************************************************************************)
(* Properties of the agent loop.                                           *)
(***************************************************************************)
\* a step that runs one iteration of a phase's loop
IterationStep == iters_done' = iters_done + 1

\* the tools a phase may use
PhaseTools(phase) ==
    CASE phase = "extractor" -> ExtractorTools
      [] phase = "validator" -> ValidatorTools
      [] phase = "refiner" -> RefinerTools
      [] OTHER -> {}

\* the iteration left the Record and what the tools produced as they were
RecordUntouched ==
    /\ invention' = invention
    /\ ext_state'.extraction = ext_state.extraction
    /\ ext_state'.artifacts = ext_state.artifacts
    /\ val_state'.validation_results = val_state.validation_results
    /\ val_state'.score = val_state.score
    /\ ref_state'.refinements = ref_state.refinements

\* the Record a phase run was seeded with, while its cap of 0 keeps it as is
C17_Seed == IF phase_log[1] = "extractor" THEN EmptyDict ELSE invention

C17_Untouched ==
    cap = 0 =>
        /\ pc # "raised"
        /\ gen_calls = 0 /\ iters_done = 0 /\ loop_i = 0
        /\ last_obs = NoObs
        /\ ext_state = ExtractorInit
        /\ val_state = ValidatorInit
        /\ ref_state = RefinerInit
        /\ pc = "returned" =>
              result.returned = CASE phase_log[1] = "extractor" -> EmptyDict
                                  [] phase_log[1] = "validator" -> EmptyDict
                                  [] phase_log[1] = "refiner" -> invention

\* C17 as stated: a phase run with a cap of 0 returns the Record it was
\* seeded with.
C17_Cap_Zero_Returns_Record ==
    (cap = 0 /\ pc = "returned") => result.returned = C17_Seed

\* C17, amended: a phase run with a cap of 0 makes no Gateway call, invokes
\* no tool, keeps its iteration counter at 0 and leaves the seeded Record as
\* it is; the extractor returns its empty seed, the refiner the Record it
\* was given, and the validator its empty validation results.
C17_Cap_Zero_Does_Nothing ==
    [](C17_Untouched) /\ [][cap = 0 => invention' = invention]_vars

C17_Witness ==
    /\ cap = 0 /\ pc = "returned" /\ phase_log = <<"refiner">>
    /\ Truthy(invention) /\ IssuesOf(validation_result) # <<>>
    /\ result.returned = invention

\* C18: a decision naming an action outside the phase's tools enters no
\* tool body and makes no Gateway call beyond the decision; the observation
\* is an error, the Record is unchanged, and the loop is not broken.
C18_Unknown_Tool_Is_Local ==
    [][(/\ IterationStep
        /\ last_obs'.status # "raise"
        /\ last_obs'.action \notin
              PhaseTools(last_obs'.phase) \cup {"complete", NoAction}) =>
            /\ last_obs'.status = "error"
            /\ last_obs'.text = "Unknown tool"
            /\ last_obs'.tool = ""
            /\ gen_calls' = gen_calls + 1
            /\ RecordUntouched
            /\ pc' = pc /\ raised' = raised
            /\ brk' = FALSE
      ]_vars

C18_Witness ==
    /\ pc = "refiner" /\ ~brk /\ loop_i >= 2 /\ loop_i < cap
    /\ last_obs.phase = "refiner" /\ last_obs.action = "validator"
    /\ last_obs.text = "Unknown tool"

\* C19: when the tool a decision selects raises, the observation has status
\* "error", the phase neither aborts nor breaks its loop, and the Record
\* and the other entries the tools produce are unchanged.
C19_Tool_Error_Is_Local ==
    [][(/\ IterationStep
        /\ last_obs'.action \in PhaseTools(last_obs'.phase)
        /\ last_obs'.text \in {"GatewayError", "TypeError", "ScoringError"}) =>
            /\ last_obs'.status = "error"
            /\ RecordUntouched
            /\ pc' = pc /\ raised' = raised
            /\ brk' = FALSE
      ]_vars

C19_Witness ==
    /\ pc = "refiner" /\ ~brk /\ loop_i >= 1 /\ loop_i < cap
    /\ last_obs.phase = "refiner" /\ last_obs.action = "field_enhancer"
    /\ last_obs.status = "error" /\ last_obs.tool = "field_enhancer"
    /\ last_obs.text = "GatewayError"

\* C20: a fatal Gateway error, raised while deciding or inside a tool,
\* leaves orchestrate as an exception.
C20_Fatal_Error_Propagates ==
    [][(IterationStep /\ last_obs'.text = "GatewayError") =>
            (pc' = "raised" /\ raised' = "GatewayError")]_vars

\* C21: whatever text the Gateway returns for a decision, the phase does
\* not abort with an exception: an iteration ends in an exception only
\* when the Gateway call itself threw.
C21_Decision_Never_Aborts ==
    [][(IterationStep /\ last_obs'.status = "raise") =>
            last_obs'.text = "GatewayError"]_vars

\* C22: a decision object without an action key ends the phase's loop at
\* that step, like the parse-error sentinel, also when the cap would allow
\* further iterations.
C22_No_Action_Means_Done ==
    [][(IterationStep /\ last_obs'.action = NoAction /\ loop_i' < cap) =>
            brk' = TRUE]_vars

\* C23: within a phase run, after a tool call failed, the same tool is
\* entered again only in an iteration that obtained a decision from the
\* Gateway.
C23_No_Automatic_Retry ==
    [][(/\ IterationStep
        /\ loop_i >= 1
        /\ last_obs.status = "error" /\ last_obs.tool # ""
        /\ last_obs'.tool = last_obs.tool) =>
            gen_calls' >= gen_calls + 1]_vars

\* the keys of a Record (a value that is not a dict has none)
Keys(j) == IF j.kind = "dict" THEN DOMAIN j.f ELSE {}

C24_Keys_Kept ==
    /\ ExtractorReturned /\ pc # "raised" =>
            Keys(ext_state.extraction) \subseteq Keys(invention)
    /\ pc = "done" =>
            Keys(ext_state.extraction) \subseteq Keys(result.invention)

\* C24: once the extractor has returned the Record, no later phase and no
\* refinement step removes a key from it, and every key is in the result.
C24_Keys_Never_Dropped ==
    [](C24_Keys_Kept)
    /\ [][ExtractorReturned => Keys(invention) \subseteq Keys(invention')]_vars

C24_Witness ==
    /\ pc = "done" /\ Count(phase_log, "refiner") >= 1
    /\ ext_state.extraction = Dict(PartialFields)
    /\ Keys(result.invention) = REQUIRED_FIELDS \cup {"reviewer_notes"}

(***************************************************************************)
(* The scorer and the response interpreter as functions (SpecPure).        *)
(***************************************************************************)
Scored == pc \in {"scored", "rescored"}

\* C26: a Record lacking one of the ten required fields is scored with a
\* non-empty issues list and a total_score strictly below 100.
C26_Missing_Field_Is_An_Issue ==
    (Scored /\ ~(REQUIRED_FIELDS \subseteq DOMAIN invention.f)) =>
        (result.issues # <<>> /\ result.total_score < 100)

\* C27: the Record with one more required field, whatever its value, scores
\* at least what the Record scored without it.
C27_Adding_A_Field_Never_Lowers ==
    pc = "rescored" => result.total_score >= current_score

SubScoreSum(b) ==
    b.completeness + b.technical_depth + b.clarity + b.patent_readiness
    + b.confidence

\* C28: total_score is an integer in 0..100, the sum of the five sub-scores,
\* and each sub-score lies between 0 and its weight: completeness 30,
\* technical depth 25, clarity 20, patent readiness 15, confidence 10.
C28_Score_Is_Bounded_Sum ==
    Scored =>
        /\ result.total_score \in 0..100
        /\ result.total_score = SubScoreSum(result.breakdown)
        /\ result.breakdown.completeness \in 0..30
        /\ result.breakdown.technical_depth \in 0..25
        /\ result.breakdown.clarity \in 0..20
        /\ result.breakdown.patent_readiness \in 0..15
        /\ result.breakdown.confidence \in 0..10

C28_Witness ==
    /\ pc = "rescored"
    /\ REQUIRED_FIELDS \subseteq DOMAIN invention.f
    /\ result.total_score = 100
    /\ current_score \in 1..99

\* the opening brackets of s from which a balanced span runs
BalancedFrom(s) ==
    {i \in 1..Len(s) :
        /\ s[i] \in {"{", "["}
        /\ \E j \in i..Len(s) : Loads(SubSeq(s, i, j), 1, <<>>)}

FirstBalancedSpan(s) ==
    LET i == First(BalancedFrom(s))
        j == First({e \in i..Len(s) : Loads(SubSeq(s, i, e), 1, <<>>)})
    IN  SubSeq(s, i, j)

\* the three stages of the contract, in order
StagedInterpretation(s) ==
    IF FenceMatch(s) /\ json_loads(FenceGroup(s)) # "bad"
        THEN [kind |-> json_loads(FenceGroup(s)), src |-> FenceGroup(s)]
    ELSE IF BalancedFrom(s) # {}
        THEN [kind |-> json_loads(FirstBalancedSpan(s)),
              src |-> FirstBalancedSpan(s)]
    ELSE ParseSentinel(s)

\* C29: interpretation returns the fenced block when it parses, else the
\* first balanced {...} or [...] span of the text, else the failure
\* sentinel.  (On a text the interpreter has no raising outcome: both
\* searches return and json.loads runs inside the try.)
C29_Three_Stages_In_Order ==
    pc = "parsed" => parsed = StagedInterpretation(response_text)

(***************************************************************************)
(* The bounds of one phase run (SpecPhase).                                *)
(***************************************************************************)
\* the run was ended by the early-exit test of its phase: the extractor
\* holds at least eight fields, the validator has validated, the refiner
\* was handed a validation without issues
PhaseEarlyExit ==
    CASE phase_log[1] = "extractor" ->
            /\ ext_state.extraction.kind = "dict"
            /\ Cardinality(DOMAIN ext_state.extraction.f) >= EARLY_EXIT_FIELDS
      [] phase_log[1] = "validator" -> val_state.validation_results.present
      [] phase_log[1] = "refiner" ->
            loop_i = 0 /\ IssuesOf(validation_result) = <<>>

C30_Within_Cap ==
    /\ loop_i <= cap /\ iters_done <= cap
    /\ (pc = "returned" /\ loop_i < cap) =>
          \/ last_obs.action = "complete" /\ last_obs.tool = ""
          \/ PhaseEarlyExit

\* an iteration makes one Gateway call to decide (none in the validator's
\* first iteration) and one more only inside a Gateway tool
C30_One_Decision_One_Tool ==
    IterationStep =>
        /\ loop_i' = loop_i + 1
        /\ gen_calls' <= gen_calls + 2
        /\ gen_calls' = gen_calls + 2 => last_obs'.tool \in GatewayTools
        /\ last_obs'.action = "complete" =>
              (last_obs'.tool = "" /\ gen_calls' = gen_calls + 1)

\* C30: a phase run with cap k performs at most k iterations, each with at
\* most one policy decision and one tool invocation, its counter never
\* exceeds k, and it returns before the k-th iteration only on a "complete"
\* decision, which invokes no tool, or on the phase's early-exit test.
C30_Phase_Run_Bounded ==
    [](C30_Within_Cap) /\ [][C30_One_Decision_One_Tool]_vars

C30_Witness ==
    /\ pc = "returned" /\ phase_log[1] = "extractor"
    /\ cap = MaxCap /\ loop_i = 1
    /\ last_obs.tool = "llm_extractor" /\ gen_calls = 2
    /\ Cardinality(DOMAIN result.returned.f) >= EARLY_EXIT_FIELDS

(***************************************************************************)
(* The order of the phase runs of one orchestration (Spec).                *)
(***************************************************************************)
\* extractor, validator, then refiner and validator in turn
C31_In_Order ==
    \A i \in 1..Len(phase_log) :
        phase_log[i] = (IF i = 1 THEN "extractor"
                        ELSE IF i % 2 = 0 THEN "validator" ELSE "refiner")

\* orchestrate calls refiner.run
RefinerStarts == pc # "refiner" /\ pc' = "refiner"

\* C31: the phase runs of one orchestration come one after the other in the
\* order extractor, validator, then (refiner, validator) pairs, possibly
\* ending with a lone refiner; the refiner never starts before there is a
\* validator result for the current Record.
C31_Phases_In_Order ==
    /\ [](C31_In_Order)
    /\ [][RefinerStarts =>
            /\ validation_result'.present
            /\ validation_result'.score = validator(invention').score]_vars

(***************************************************************************)
(* What an iteration leaves in AgentState (Spec).                          *)
(***************************************************************************)
\* the extractor's state after the iteration holds the result of the tool:
\* as its extraction, as quick_check, as counts, or under one more key
ExtractorHolds(tool) ==
    CASE tool = "llm_extractor" ->
            ext_state'.extraction \in {_parse_json_tool(o) : o \in ToolResponses}
      [] tool = "quick_validator" -> "quick_check" \in ext_state'.artifacts
      [] tool = "field_counter" -> "counts" \in ext_state'.artifacts
      [] OTHER -> ext_state'.artifacts \ {"quick_check", "counts"} # {}

\* the refiner's state has the Record (written by field_enhancer and
\* llm_extractor), the refinements count and no key for any other result
RefinerHolds(tool) ==
    CASE tool = "field_enhancer" ->
            /\ ref_state'.refinements = ref_state.refinements + 1
            /\ \E k \in DOMAIN invention'.f : invention'.f[k] = last_obs'.text
      [] tool = "llm_extractor" ->
            \E o \in ToolResponses :
                /\ _parse_json_tool(o).kind = "dict"
                /\ invention' = Dict(Update(invention.f, _parse_json_tool(o).f))
      [] OTHER -> FALSE

\* C32: after a tool invocation of the extractor or refiner that returns
\* status success, pdf_reader and section_reader included, AgentState holds
\* the tool's result under a key for that action.
C32_Success_Is_Folded ==
    [][(/\ IterationStep
        /\ last_obs'.status = "success" /\ last_obs'.tool # "") =>
            CASE last_obs'.phase = "extractor" -> ExtractorHolds(last_obs'.tool)
              [] last_obs'.phase = "refiner" -> RefinerHolds(last_obs'.tool)
              [] OTHER -> TRUE]_vars

(***************************************************************************)
(* The extractor's early exit (Spec).                                      *)
(***************************************************************************)
\* the fields of a Record that hold something: quick_validator counts a key
\* with an empty value as missing
Populated(j) ==
    IF j.kind = "dict" THEN {k \in DOMAIN j.f : Attr(j.f[k]).len > 0} ELSE {}

\* the extractor leaves its loop by the early exit of lines 45-47
EarlyExitTaken ==
    /\ IterationStep /\ pc = "extractor"
    /\ brk' /\ loop_i' < cap /\ last_obs'.action # "complete"

\* C33: the extractor stops deciding as soon as its working Record has at
\* least 8 populated fields, and does not take that early exit while fewer
\* than 8 fields are populated.
C33_Exit_At_Eight_Populated ==
    [][/\ (IterationStep /\ pc = "extractor" /\ pc' = "extractor"
           /\ Cardinality(Populated(ext_state'.extraction)) >= EARLY_EXIT_FIELDS)
          => brk'
       /\ EarlyExitTaken =>
            Cardinality(Populated(ext_state'.extraction)) >= EARLY_EXIT_FIELDS]_vars

(***************************************************************************)
(* Scoring failures (Spec).                                                *)
(***************************************************************************)
\* C34: whatever Record the extractor and the refiner produce, a Record with
\* a field of an unexpected type included, a scoring failure in the
\* validator tool or in _finalize never leaves orchestrate as an exception.
C34_Scoring_Failure_Is_Absorbed ==
    ~(pc = "raised" /\ raised = "ScoringError")

(***************************************************************************)
(* The defaults the extractor injects into tool_params (Spec).             *)
(***************************************************************************)
\* C36: in the extractor a decision selecting quick_validator or
\* field_counter with an invention parameter (every such decision of the
\* model carries one) executes with status success, the injected pdf_path
\* notwithstanding, and its result is stored as quick_check resp. counts.
C36_Injection_Is_Harmless ==
    [][(/\ IterationStep /\ last_obs'.phase = "extractor"
        /\ last_obs'.action \in {"quick_validator", "field_counter"}) =>
            /\ last_obs'.status = "success"
            /\ (IF last_obs'.action = "quick_validator" THEN "quick_check"
                ELSE "counts") \in ext_state'.artifacts]_vars

(***************************************************************************)
(* The refiner's short-circuit on a validation without issues (Spec).      *)
(***************************************************************************)
\* the refiner was handed a validation with no issues (the validator's dict
\* has no missing_fields key)
NothingToRefine == IssuesOf(validation_result) = <<>>

\* such a run is over before its first iteration
C37_No_Iteration ==
    (pc = "refiner" /\ NothingToRefine) =>
        (~InLoop /\ loop_i = 0 /\ ref_state.iteration = 0)

\* its return leaves Record, score, budget and Gateway alone
C37_Refiner_Returns ==
    (pc = "refiner" /\ NothingToRefine) =>
        /\ invention' = invention
        /\ current_score' = current_score
        /\ api_calls' = api_calls
        /\ gen_calls' = gen_calls

\* the validator run of that round reports what it reported before and
\* costs its own iterations
C37_Round_Ends ==
    (pc = "validator_loop" /\ NothingToRefine /\ ~InLoop) =>
        /\ invention' = invention
        /\ validation_result' = validation_result
        /\ current_score' = current_score
        /\ api_calls' = api_calls + val_state.iteration
        /\ val_state.iteration \in 1..VALIDATION_CAP

\* C37: a refiner run handed a validation with an empty issues list and no
\* missing_fields returns the identical Record with iteration count 0 and
\* without a Gateway call, also when the score is below 85; such a
\* refinement round changes neither the Record nor the score and consumes
\* only the validator's iterations.
C37_Nothing_To_Refine ==
    /\ [](C37_No_Iteration)
    /\ [][C37_Refiner_Returns /\ C37_Round_Ends]_vars

C37_Witness ==
    /\ pc = "done" /\ refinement_rounds = max_refinement_rounds
    /\ result.invention = Dict(DullFields)
    /\ validation_result.present /\ NothingToRefine
    /\ current_score < SCORE_THRESHOLD
    /\ Count(phase_log, "refiner") = max_refinement_rounds
    /\ gen_calls = 2 /\ api_calls = 2 + max_refinement_rounds

(***************************************************************************)
(* The interpreter's failure value and the Record (Spec).                  *)
(***************************************************************************)
\* C38: the failure sentinel of _parse_json, the object holding only
\* raw_response, is never stored as the extractor's working Record nor
\* merged into the Record by the refiner: no Record has a raw_response key.
C38_No_Sentinel_In_Record ==
    /\ "raw_response" \notin Keys(ext_state.extraction)
    /\ "raw_response" \notin Keys(invention)
    /\ pc = "done" => "raw_response" \notin Keys(result.invention)

(***************************************************************************)
(* Every admission is granted (SpecRLLive).                                *)
(***************************************************************************)
\* the wait acquire() returned is within 0..max(min_request_interval, 60)
C39_Wait_Bounded ==
    rl_last.op = "acquire" =>
        (rl_last.ret >= 0 /\ rl_last.ret <= Max(rl_interval, window_duration))

\* C39: every acquire() of a single caller returns, after a wait that is
\* never negative and never longer than max(min_request_interval, 60)
\* seconds: every requested admission eventually happens.
C39_Every_Admission_Happens ==
    /\ [](C39_Wait_Bounded)
    /\ [][AcquireCalled => rl_pc' # "raised"]_vars
    /\ (rl_pc \in {"sleeping", "record"}) ~> (rl_pc = "idle" /\ rl_last.op = "acquire")

(***************************************************************************)
(* Sharing a RateLimiter between two threads (SpecShared).                 *)
(***************************************************************************)
\* C35: with the acquire() calls of two threads executed one at a time,
\* consecutive recorded timestamps are at least min_request_interval apart;
\* with their steps interleaved, both threads can be admitted less than
\* min_request_interval apart (the state C35_Witness describes).
C35_Serialized_Keeps_Interval ==
    serialized =>
        \A i \in 1..(Len(rl_log) - 1) : rl_log[i + 1] - rl_log[i] >= rl_interval

C35_Witness ==
    /\ ~serialized /\ rl_interval = 6 /\ Len(rl_log) = 2
    /\ rl_log[2] - rl_log[1] < rl_interval
    /\ \A c \in Callers : callers[c].pc = "idle"

====
